---------------------------- MODULE Spec2Model ----------------------------
(***************************************************************************)
(* A state-machine model of kilo.c, a read-only full-screen terminal text  *)
(* viewer: raw-mode terminal driver, bounded frame buffer, viewport,       *)
(* renderer, escape-sequence key decoder and the controller loop.          *)
(*                                                                         *)
(* Bytes are integers (their ASCII codes); byte strings are sequences of   *)
(* bytes.  One action models one step of main(): every call main makes is  *)
(* one action, and the blocking reads of readKey are one action per        *)
(* read(2), because the terminal's input queue changes between them.       *)
(***************************************************************************)
EXTENDS Integers, Sequences, FiniteSets, TLC

(***************************************************************************)
(* Bounds of the model.                                                    *)
(***************************************************************************)
MaxRows == 3        \* terminal heights 2 .. MaxRows
MaxCols == 2        \* terminal widths  1 .. MaxCols
MaxLines == 2       \* documents of 0 .. MaxLines lines
MaxLineLen == 1     \* lines of 0 .. MaxLineLen bytes
MaxQueue == 1       \* a key is pressed while fewer than MaxQueue bytes are pending
MaxClock == 6       \* wall-clock seconds 0 .. MaxClock

(***************************************************************************)
(* Program constants.                                                      *)
(***************************************************************************)
ESCAPE == 27
ARROW_LEFT == 1024
ARROW_RIGHT == 1025
ARROW_UP == 1026
ARROW_DOWN == 1027
PAGE_UP == 1028
PAGE_DOWN == 1029
HOME == 1030
END == 1031
DELETE == 1032
CTRL_Q == 17                 \* CONTROL('q') = 'q' & 0x1f
SEQUENCE_SIZE == 3           \* char sequence[3]
CAPACITY_FACTOR == 8         \* backBufferInit(columns * rows * 8)
MESSAGE_LIFETIME == 5        \* time(NULL) - messageTime > 5
FILENAME_PRECISION == 20     \* "%.20s"

UNINIT == -1                 \* the content of a byte no one has written yet

min(a, b) == IF a < b THEN a ELSE b

max(a, b) == IF a > b THEN a ELSE b

(***************************************************************************)
(* The byte strings the program writes.                                    *)
(***************************************************************************)
SeqClearScreen == <<27, 91, 50, 74, 27, 91, 72>>                 \* ESC[2J ESC[H
SeqCursorHome == <<27, 91, 72>>                                  \* ESC[H
SeqCursorOut == <<27, 91, 57, 57, 57, 67, 27, 91, 57, 57, 57, 66>> \* ESC[999C ESC[999B
SeqReadCursorPosition == <<27, 91, 54, 110>>                     \* ESC[6n
SeqCursorHide == <<27, 91, 63, 50, 53, 108>>                     \* ESC[?25l
SeqCursorShow == <<27, 91, 63, 50, 53, 104>>                     \* ESC[?25h
SeqClearLine == <<27, 91, 75>>                                   \* ESC[K
SeqInverse == <<27, 91, 55, 109>>                                \* ESC[7m
SeqNormal == <<27, 91, 109>>                                     \* ESC[m
SeqCRLF == <<13, 10>>
SeqTilde == <<126>>
SeqSpace == <<32>>
HelpMessage ==
    <<72, 69, 76, 80, 58, 32, 112, 114, 101, 115, 115, 32, 67, 84, 82, 76,
      43, 81, 32, 116, 111, 32, 113, 117, 105, 116>>             \* HELP: press CTRL+Q to quit
NoFileName == <<91, 110, 111, 32, 102, 105, 108, 101, 93>>       \* [no file]
StatusDash == <<32, 45, 32>>                                     \* " - "
StatusLines ==
    <<32, 108, 105, 110, 101, 115, 32, 32, 32, 32, 108, 105, 110, 101, 58, 32>>
                                                                 \* " lines    line: "
StatusColumn == <<32, 32, 99, 111, 108, 117, 109, 110, 58, 32>>  \* "  column: "

Take(s, n) == SubSeq(s, 1, min(Len(s), max(n, 0)))

RECURSIVE Decimal(_)
\* printf's %d of a number n >= 0
Decimal(n) ==
    IF n < 10 THEN <<48 + n>> ELSE Decimal(n \div 10) \o <<48 + (n % 10)>>

RECURSIVE Flatten(_)
Flatten(ss) == IF ss = <<>> THEN <<>> ELSE Head(ss) \o Flatten(Tail(ss))


NULL == <<-2>>               \* the null pointer, where a byte string is expected

(***************************************************************************)
(* The environment: the terminal (its size, whether the window-size ioctl  *)
(* works, whether it answers the cursor-position probe, its attributes at  *)
(* startup, whether tcgetattr and tcsetattr work on standard input),       *)
(* whether malloc has memory for the frame buffer, the command line and    *)
(* the file it names.                                                      *)
(***************************************************************************)
CookedMode ==
    [iflag |-> {"BRKINT", "ICRNL", "IXON"}, oflag |-> {"OPOST"}, cflag |-> {"CS8"},
     lflag |-> {"ECHO", "ICANON", "IEXTEN", "ISIG"}, vmin |-> 1, vtime |-> 0]

SevenBitMode ==
    [iflag |-> {"ICRNL", "INPCK", "ISTRIP"}, oflag |-> {"OPOST"}, cflag |-> {},
     lflag |-> {"ICANON", "ISIG"}, vmin |-> 1, vtime |-> 0]

StartupModes == {CookedMode, SevenBitMode}

\* a zero-initialised struct termios
ZeroMode ==
    [iflag |-> {}, oflag |-> {}, cflag |-> {}, lflag |-> {}, vmin |-> 0, vtime |-> 0]

\* line k of the documents: the k-th letter, n times
Line(k, n) == [j \in 1..n |-> 96 + k]

\* the documents: up to MaxLines lines, the first of up to MaxLineLen bytes,
\* every line one byte shorter than the line before it
Document(lines, length) == [k \in 1..lines |-> Line(k, max(length - (k - 1), 0))]

Documents == {Document(n, l) : n \in 0..MaxLines, l \in 0..MaxLineLen}

\* the file on disk: the first line ends in CR LF, every other line in LF
FileOf(doc) ==
    [k \in 1..Len(doc) |-> doc[k] \o (IF k = 1 THEN <<13, 10>> ELSE <<10>>)]

FileName == <<110, 111, 116, 101, 115, 46, 116, 120, 116>>      \* notes.txt

VARIABLES
    env,                  \* the environment, fixed during a run
    keyboard,             \* the byte bursts the terminal can deliver for one key
    clock,                \* the last wall-clock time the program observed
    stdin,                \* the terminal's input queue
    out,                  \* the writes to standard output since the frame loop's
                          \* current iteration began (before the loop: since startup)
    tty,                  \* the terminal's attributes in force
    pc,                   \* the statement of main() to execute next
    exitStatus,           \* the process's exit status; -1 while it runs
    atexitHooks,          \* the functions registered with atexit, in order
    originalTerminalMode,
    backBuffer,           \* struct BackBuffer
    heap,                 \* the block malloc gave backBufferInit: whether it is live,
                          \* and the malloc and free calls made for it so far
    state,                \* struct EditorState
    sequence,             \* readKey's local char sequence[3]
    i,                    \* readKey's loop counter
    consumed,             \* the bytes the running readKey call has taken from stdin
    key,                  \* the token readKey returned
    appended,             \* the bytes appended to the back buffer since backBufferClear
    outOfBounds,          \* whether a memcpy of backBufferAppend wrote past capacity
    overflow,             \* the append that died: <<length, n, capacity>>; else <<>>
    keysSinceRender,      \* key tokens read since the last backBufferRender
    rendersSinceKey       \* backBufferRender calls since the last key token

vars ==
    <<env, keyboard, clock, stdin, out, tty, pc, exitStatus, atexitHooks,
      originalTerminalMode, backBuffer, heap, state, sequence, i, consumed, key,
      appended, outOfBounds, overflow, keysSinceRender, rendersSinceKey>>

Times == {0} \cup (MESSAGE_LIFETIME .. MaxClock)

\* time(NULL) when the frame is drawn: the wall clock never runs backwards;
\* clock is the time at which editorSetStatusMessage read it
TimeNow(t) == t \in Times /\ t >= clock

(***************************************************************************)
(* exit(): the atexit hooks run in the reverse order of their registration.*)
(***************************************************************************)
\* free(ptr) on the heap h: nothing for a null pointer, the release of a live
\* block, and otherwise the free of a block that is not allocated
Free(h, ptr) ==
    IF ptr = NULL THEN h
    ELSE IF h.live THEN [h EXCEPT !.live = FALSE, !.frees = h.frees + 1]
    ELSE [h EXCEPT !.badFrees = h.badFrees + 1]

\* backBufferDestroy that leaves the freed pointer in data
backBufferDestroyMutant(p) ==
    [p EXCEPT !.backBuffer = [p.backBuffer EXCEPT !.length = 0, !.capacity = 0],
              !.heap = Free(p.heap, p.backBuffer.data)]

backBufferDestroy(p) ==
    [p EXCEPT !.backBuffer = [data |-> NULL, length |-> 0, capacity |-> 0],
              !.heap = Free(p.heap, p.backBuffer.data)]

\* terminalReset without its tcsetattr
terminalResetMutant(p) == p

\* tcsetattr(TCSAFLUSH) also discards the input not read yet; it changes
\* nothing when it fails
terminalReset(p) ==
    IF env.termiosOk THEN [p EXCEPT !.tty = originalTerminalMode, !.stdin = <<>>] ELSE p

RunHook(h, p) ==
    IF h = "terminalReset" THEN terminalReset(p) ELSE backBufferDestroy(p)

RECURSIVE RunHooks(_, _)
RunHooks(hooks, p) ==
    IF hooks = <<>> THEN p
    ELSE RunHooks(SubSeq(hooks, 1, Len(hooks) - 1), RunHook(hooks[Len(hooks)], p))

\* exit(status) from a process whose back buffer is bb
Exit(status, bb) ==
    LET p == RunHooks(atexitHooks,
                      [tty |-> tty, stdin |-> stdin, backBuffer |-> bb, heap |-> heap])
    IN  /\ exitStatus' = status
        /\ pc' = "exited"
        /\ tty' = p.tty
        /\ stdin' = p.stdin
        /\ backBuffer' = p.backBuffer
        /\ heap' = p.heap

\* die() without its write of the clear-screen sequence
dieMutant(bb) ==
    /\ out' = out
    /\ Exit(1, bb)

\* die(): clear the screen, report, exit(1)
die(bb) ==
    /\ out' = Append(out, SeqClearScreen)
    /\ Exit(1, bb)

\* a write through a null pointer: the kernel ends the process with SIGSEGV,
\* and no atexit hook runs
Segfault ==
    /\ pc' = "killed"
    /\ exitStatus' = 128 + 11
    /\ UNCHANGED <<stdin, out, tty, backBuffer, heap>>

(***************************************************************************)
(* BACK BUFFER                                                             *)
(***************************************************************************)
\* the test that sends backBufferAppend to die()
Overflows(length, n, capacity) == length + n >= capacity

\* a memcpy to the start of the block, memcpy(data, bytes, n)
MemcpyMutant(data, length, bytes) ==
    Take(bytes \o SubSeq(data, Len(bytes) + 1, Len(data)), Len(data))

\* memcpy(&data[length], bytes, n): the bytes that fall inside the block
Memcpy(data, length, bytes) ==
    Take(SubSeq(data, 1, length) \o bytes
            \o SubSeq(data, length + Len(bytes) + 1, Len(data)),
         Len(data))

\* backBufferAppend(bytes, Len(bytes)) on the buffer r.bb, unless an earlier
\* append of the frame has ended the process already: by die(), or by the
\* memcpy to the null pointer a failed malloc left in data
backBufferAppend(r, bytes) ==
    IF r.died \/ r.faulted THEN r
    ELSE IF Overflows(r.bb.length, Len(bytes), r.bb.capacity)
    THEN [r EXCEPT !.died = TRUE,
                   !.overflow = <<r.bb.length, Len(bytes), r.bb.capacity>>]
    ELSE IF r.bb.data = NULL
    THEN [r EXCEPT !.faulted = TRUE]
    ELSE [bb |-> [r.bb EXCEPT !.data = Memcpy(r.bb.data, r.bb.length, bytes),
                              !.length = r.bb.length + Len(bytes)],
          died |-> FALSE,
          faulted |-> FALSE,
          appended |-> r.appended \o bytes,
          overflow |-> r.overflow,
          outOfBounds |-> r.outOfBounds \/ r.bb.length + Len(bytes) > r.bb.capacity]

RECURSIVE AppendAll(_, _)
\* the appends of chunks, in order
AppendAll(r, chunks) ==
    IF chunks = <<>> THEN r
    ELSE AppendAll(backBufferAppend(r, Head(chunks)), Tail(chunks))

\* the buffer backBufferClear leaves: memset(data, 0, length); length = 0
Cleared(bb) ==
    [bb EXCEPT !.data = [k \in 1..bb.length |-> 0]
                            \o SubSeq(bb.data, bb.length + 1, Len(bb.data)),
               !.length = 0]

\* the bytes backBufferRender writes: write(1, data, length)
Rendered(bb) == SubSeq(bb.data, 1, bb.length)

(***************************************************************************)
(* TERMINAL                                                                *)
(***************************************************************************)
\* the attributes terminalRawMode sets, from the ones it read
RawMode(mode) ==
    [iflag |-> mode.iflag \ {"BRKINT", "ICRNL", "INPCK", "ISTRIP", "IXON"},
     oflag |-> mode.oflag \ {"OPOST"},
     cflag |-> mode.cflag \cup {"CS8"},
     lflag |-> mode.lflag \ {"ECHO", "ICANON", "IEXTEN", "ISIG"},
     vmin |-> 0,
     vtime |-> 1]

\* snprintf(buffer, 32, ESC "[%d;%dH", y + 1, x + 1)
SeqCursorPosition(x, y) ==
    <<27, 91>> \o Decimal(y + 1) \o <<59>> \o Decimal(x + 1) \o <<72>>

(***************************************************************************)
(* MAIN ENTRY POINT: the order of the statements of the frame loop.        *)
(***************************************************************************)
\* the frame loop with the flush after the cursor positioning
MainLoopMutant ==
    <<"terminalCursorHide", "terminalCursorHome", "backBufferClear", "editorDrawLines",
      "terminalSetCursorPosition", "backBufferRender", "terminalCursorShow", "readKey">>

\* the statements of main's frame loop, in order; the last is handleKeyPress,
\* which starts with readKey
MainLoop ==
    <<"terminalCursorHide", "terminalCursorHome", "backBufferClear", "editorDrawLines",
      "backBufferRender", "terminalSetCursorPosition", "terminalCursorShow", "readKey">>

\* the statement main executes after statement p of the loop
After(p) ==
    LET k == CHOOSE j \in 1..Len(MainLoop) : MainLoop[j] = p
    IN  MainLoop[(k % Len(MainLoop)) + 1]

\* terminalRawMode: the results of tcgetattr and tcsetattr are not looked at;
\* when they fail, originalTerminalMode and the terminal stay as they are
TerminalRawMode ==
    /\ pc = "terminalRawMode"
    /\ originalTerminalMode' = IF env.termiosOk THEN tty ELSE originalTerminalMode
    /\ atexitHooks' = Append(atexitHooks, "terminalReset")
    /\ tty' = IF env.termiosOk THEN RawMode(originalTerminalMode') ELSE tty
    /\ stdin' = IF env.termiosOk THEN <<>> ELSE stdin
    /\ pc' = "editorInit"
    /\ UNCHANGED <<env, keyboard, clock, out, exitStatus, backBuffer, heap, state, sequence, i,
                   consumed, key, appended, outOfBounds, overflow, keysSinceRender,
                   rendersSinceKey>>

(***************************************************************************)
(* EDITOR                                                                  *)
(***************************************************************************)
\* terminalGetSize: the window size from the ioctl; if that fails, from the
\* terminal's answer to the cursor-position probe, which is read behind the
\* bytes already pending; with no answer to parse, rows and columns are left
\* as they were
SizeKnown == env.ioctlOk \/ (env.probeReply /\ stdin = <<>>)

EditorInit ==
    /\ pc = "editorInit"
    /\ state' = [state EXCEPT
            !.cx = 0, !.cy = 0, !.lines = <<>>, !.lineCount = 0, !.lineOffset = 0,
            !.rows = (IF SizeKnown THEN env.winsize[1] ELSE state.rows) - 1,
            !.columns = IF SizeKnown THEN env.winsize[2] ELSE state.columns,
            !.filename = NULL, !.message = NULL, !.messageTime = 0]
    /\ out' = IF env.ioctlOk THEN out ELSE out \o <<SeqCursorOut, SeqReadCursorPosition>>
    /\ stdin' = IF env.ioctlOk THEN stdin ELSE <<>>
    /\ pc' = IF env.argc > 1 THEN "editorOpenFile" ELSE "backBufferInit"
    /\ UNCHANGED <<env, keyboard, clock, tty, exitStatus, atexitHooks, originalTerminalMode,
                   backBuffer, heap, sequence, i, consumed, key, appended, outOfBounds,
                   overflow, keysSinceRender, rendersSinceKey>>

RECURSIVE StripEol(_)
\* a line of the file without its trailing \n and \r bytes
StripEol(s) ==
    IF Len(s) > 0 /\ s[Len(s)] \in {10, 13} THEN StripEol(SubSeq(s, 1, Len(s) - 1)) ELSE s

\* the lines editorOpenFile loads from the lines getline returns
LoadLines(file) ==
    [k \in 1..Len(file) |-> [chars |-> StripEol(file[k]), length |-> Len(StripEol(file[k]))]]

EditorOpenFile ==
    /\ pc = "editorOpenFile"
    /\ IF env.fileExists
       THEN /\ state' = [state EXCEPT !.filename = env.filename,
                                      !.lines = state.lines \o LoadLines(env.file),
                                      !.lineCount = state.lineCount + Len(env.file)]
            /\ pc' = "backBufferInit"
            /\ UNCHANGED <<out, exitStatus, tty, stdin, backBuffer, heap>>
       ELSE /\ state' = [state EXCEPT !.filename = env.filename]
            /\ die(backBuffer)
    /\ UNCHANGED <<env, keyboard, clock, atexitHooks, originalTerminalMode, sequence, i,
                   consumed, key, appended, outOfBounds, overflow, keysSinceRender,
                   rendersSinceKey>>

\* the capacity main asks for
Capacity(rows, columns) == columns * rows * CAPACITY_FACTOR

\* backBufferInit: the result of malloc is not looked at
BackBufferInit ==
    /\ pc = "backBufferInit"
    /\ backBuffer' =
            [data |-> IF env.mallocOk
                      THEN [k \in 1..Capacity(state.rows, state.columns) |-> UNINIT]
                      ELSE NULL,
             length |-> 0,
             capacity |-> Capacity(state.rows, state.columns)]
    /\ heap' = [heap EXCEPT !.mallocs = heap.mallocs + 1, !.live = env.mallocOk]
    /\ atexitHooks' = Append(atexitHooks, "backBufferDestroy")
    /\ pc' = "terminalClearScreen"
    /\ UNCHANGED <<env, keyboard, clock, stdin, out, tty, exitStatus, originalTerminalMode,
                   state, sequence, i, consumed, key, appended, outOfBounds,
                   overflow, keysSinceRender, rendersSinceKey>>

TerminalClearScreen ==
    /\ pc = "terminalClearScreen"
    /\ out' = Append(out, SeqClearScreen)
    /\ pc' = "editorSetStatusMessage"
    /\ UNCHANGED <<env, keyboard, clock, stdin, tty, exitStatus, atexitHooks,
                   originalTerminalMode, backBuffer, heap, state, sequence, i, consumed, key,
                   appended, outOfBounds, overflow, keysSinceRender, rendersSinceKey>>

EditorSetStatusMessage ==
    /\ pc = "editorSetStatusMessage"
    /\ state' = [state EXCEPT !.message = HelpMessage, !.messageTime = clock]
    /\ pc' = MainLoop[1]
    /\ UNCHANGED <<env, keyboard, clock, stdin, out, tty, exitStatus, atexitHooks,
                   originalTerminalMode, backBuffer, heap, sequence, i, consumed, key,
                   appended, outOfBounds, overflow, keysSinceRender, rendersSinceKey>>

(***************************************************************************)
(* The frame: what editorDrawLines appends, append by append.              *)
(***************************************************************************)
\* screen rows whose text is cut to columns bytes instead of columns - 1
RowAppendsMutant(st, y) ==
    LET lineNumber == st.lineOffset + y
    IN  <<SeqClearLine,
          IF lineNumber < st.lineCount
          THEN Take(st.lines[lineNumber + 1].chars,
                    min(st.lines[lineNumber + 1].length, st.columns))
          ELSE SeqTilde,
          SeqCRLF>>

\* the appends of screen row y
RowAppends(st, y) ==
    LET lineNumber == st.lineOffset + y
    IN  <<SeqClearLine,
          IF lineNumber < st.lineCount
          THEN Take(st.lines[lineNumber + 1].chars,
                    min(st.lines[lineNumber + 1].length, st.columns - 1))
          ELSE SeqTilde,
          SeqCRLF>>

\* the string the default status line's format produces
StatusFormat(st) ==
    Take(IF st.filename # NULL THEN st.filename ELSE NoFileName, FILENAME_PRECISION)
        \o StatusDash \o Decimal(st.lineCount)
        \o StatusLines \o Decimal(st.lineOffset + st.cy)
        \o StatusColumn \o Decimal(st.cx)

\* what snprintf(status, size, ...) leaves in status[0 .. size-1] for the string
\* text: as much of it as fits before a terminating 0; the rest is not written
Snprintf(text, size) ==
    [k \in 1..size |->
        IF k <= min(Len(text), size - 1) THEN text[k]
        ELSE IF k = min(Len(text), size - 1) + 1 THEN 0
        ELSE UNINIT]

\* the length editorDrawLines computes for the status text
StatusLength(st) ==
    IF st.message = NULL THEN min(Len(StatusFormat(st)), st.columns)
    ELSE min(Len(st.message), st.columns)

\* the bytes editorDrawLines appends for the status text
StatusText(st) ==
    IF st.message = NULL
    THEN SubSeq(Snprintf(StatusFormat(st), st.columns), 1, StatusLength(st))
    ELSE SubSeq(st.message, 1, StatusLength(st))

\* the appends up to and including the status text
FrameHead(st) ==
    Flatten([y \in 1..st.rows |-> RowAppends(st, y - 1)]) \o <<SeqInverse, StatusText(st)>>

\* the appends after the status text: the padding, byte by byte, and ESC[m
FrameTail(st) ==
    [k \in 1..(st.columns - StatusLength(st)) |-> SeqSpace] \o <<SeqNormal>>

TerminalCursorHide ==
    /\ pc = "terminalCursorHide"
    /\ out' = <<SeqCursorHide>>
    /\ pc' = After("terminalCursorHide")
    /\ UNCHANGED <<env, keyboard, clock, stdin, tty, exitStatus, atexitHooks,
                   originalTerminalMode, backBuffer, heap, state, sequence, i, consumed, key,
                   appended, outOfBounds, overflow, keysSinceRender, rendersSinceKey>>

TerminalCursorHome ==
    /\ pc = "terminalCursorHome"
    /\ out' = Append(out, SeqCursorHome)
    /\ pc' = After("terminalCursorHome")
    /\ UNCHANGED <<env, keyboard, clock, stdin, tty, exitStatus, atexitHooks,
                   originalTerminalMode, backBuffer, heap, state, sequence, i, consumed, key,
                   appended, outOfBounds, overflow, keysSinceRender, rendersSinceKey>>

BackBufferClear ==
    /\ pc = "backBufferClear"
    /\ backBuffer' = Cleared(backBuffer)
    /\ appended' = <<>>
    /\ pc' = After("backBufferClear")
    /\ UNCHANGED <<env, keyboard, clock, stdin, out, tty, exitStatus, atexitHooks,
                   originalTerminalMode, heap, state, sequence, i, consumed, key, outOfBounds,
                   overflow, keysSinceRender, rendersSinceKey>>

\* editorDrawLines: the appends of the frame, the first overflowing one (or
\* the first through a null data pointer) ending the process; a status message
\* older than MESSAGE_LIFETIME is dropped once it has been appended
EditorDrawLines ==
    /\ pc = "editorDrawLines"
    /\ LET start == [bb |-> backBuffer, died |-> FALSE, faulted |-> FALSE,
                     appended |-> appended, outOfBounds |-> outOfBounds,
                     overflow |-> overflow]
           head == AppendAll(start, FrameHead(state))
           tail == AppendAll(head, FrameTail(state))
       IN  /\ appended' = tail.appended
           /\ outOfBounds' = tail.outOfBounds
           /\ overflow' = tail.overflow
           /\ IF head.died \/ head.faulted \/ state.message = NULL
              THEN UNCHANGED <<clock, state>>
              ELSE \E t \in Times :
                      /\ TimeNow(t)
                      /\ clock' = t
                      /\ state' = IF t - state.messageTime > MESSAGE_LIFETIME
                                  THEN [state EXCEPT !.message = NULL, !.messageTime = 0]
                                  ELSE state
           /\ IF tail.died
              THEN die(tail.bb)
              ELSE IF tail.faulted
              THEN Segfault
              ELSE /\ backBuffer' = tail.bb
                   /\ pc' = After("editorDrawLines")
                   /\ UNCHANGED <<stdin, out, tty, exitStatus, heap>>
    /\ UNCHANGED <<env, keyboard, atexitHooks, originalTerminalMode, sequence, i, consumed,
                   key, keysSinceRender, rendersSinceKey>>

BackBufferRender ==
    /\ pc = "backBufferRender"
    /\ out' = Append(out, Rendered(backBuffer))
    /\ rendersSinceKey' = rendersSinceKey + 1
    /\ keysSinceRender' = 0
    /\ pc' = After("backBufferRender")
    /\ UNCHANGED <<env, keyboard, clock, stdin, tty, exitStatus, atexitHooks,
                   originalTerminalMode, backBuffer, heap, state, sequence, i, consumed, key,
                   appended, outOfBounds, overflow>>

TerminalSetCursorPosition ==
    /\ pc = "terminalSetCursorPosition"
    /\ out' = Append(out, SeqCursorPosition(state.cx, state.cy))
    /\ pc' = After("terminalSetCursorPosition")
    /\ UNCHANGED <<env, keyboard, clock, stdin, tty, exitStatus, atexitHooks,
                   originalTerminalMode, backBuffer, heap, state, sequence, i, consumed, key,
                   appended, outOfBounds, overflow, keysSinceRender, rendersSinceKey>>

TerminalCursorShow ==
    /\ pc = "terminalCursorShow"
    /\ out' = Append(out, SeqCursorShow)
    /\ pc' = After("terminalCursorShow")
    /\ UNCHANGED <<env, keyboard, clock, stdin, tty, exitStatus, atexitHooks,
                   originalTerminalMode, backBuffer, heap, state, sequence, i, consumed, key,
                   appended, outOfBounds, overflow, keysSinceRender, rendersSinceKey>>

(***************************************************************************)
(* INPUT HANDLER                                                           *)
(***************************************************************************)
\* the bytes the decoding switch of readKey tells apart, and some it does not
SequenceBytes == {91, 79, 65, 66, 67, 68, 70, 72, 49, 51, 52, 53, 54, 55, 56}

OtherBytes == {0, 27, 50, 69, 120, 126}

\* the switch on sequence[1] after ESC '['
DecodeCsi(b) ==
    CASE b = 65 -> ARROW_UP                         \* 'A'
      [] b = 66 -> ARROW_DOWN                       \* 'B'
      [] b = 67 -> ARROW_RIGHT                      \* 'C'
      [] b = 68 -> ARROW_LEFT                       \* 'D'
      [] b = 70 -> END                              \* 'F'
      [] b = 72 -> HOME                             \* 'H'
      [] b = 49 -> HOME                             \* '1'
      [] b = 51 -> DELETE                           \* '3'
      [] b = 52 -> END                              \* '4'
      [] b = 53 -> PAGE_UP                          \* '5'
      [] b = 54 -> PAGE_DOWN                        \* '6'
      [] b = 55 -> HOME                             \* '7'
      [] b = 56 -> END                              \* '8'
      [] OTHER -> ESCAPE

\* a decoder that knows no ESC 'O' sequences
DecodeSs3Mutant(b) == ESCAPE

\* the switch on sequence[1] after ESC 'O'
DecodeSs3(b) ==
    CASE b = 70 -> END                              \* 'F'
      [] b = 72 -> HOME                             \* 'H'
      [] OTHER -> ESCAPE

\* the token readKey returns once ESC has been read, from sequence[0], sequence[1]
DecodeSequence(seq) ==
    IF seq[1] = 91 THEN DecodeCsi(seq[2])           \* '['
    ELSE IF seq[1] = 79 THEN DecodeSs3(seq[2])      \* 'O'
    ELSE ESCAPE

\* the values an element of sequence may show when it is read: the byte
\* written to it, or any byte at all if none was written
Shows(slot) == IF slot = UNINIT THEN SequenceBytes \cup OtherBytes ELSE {slot}

\* the first read of readKey that returns a byte; a read that times out is
\* repeated and changes nothing
ReadKeyFirst ==
    /\ pc = "readKey"
    /\ stdin # <<>>
    /\ stdin' = Tail(stdin)
    /\ consumed' = <<Head(stdin)>>
    /\ IF Head(stdin) = ESCAPE
       THEN /\ pc' = "readKeySequence"
            /\ sequence' = [k \in 1..SEQUENCE_SIZE |-> UNINIT]
            /\ i' = 0
            /\ UNCHANGED <<key, keysSinceRender, rendersSinceKey>>
       ELSE /\ pc' = "handleKeyPress"
            /\ key' = Head(stdin)
            /\ keysSinceRender' = keysSinceRender + 1
            /\ rendersSinceKey' = 0
            /\ UNCHANGED <<sequence, i>>
    /\ UNCHANGED <<env, keyboard, clock, out, tty, exitStatus, atexitHooks,
                   originalTerminalMode, backBuffer, heap, state, appended, outOfBounds,
                   overflow>>

\* one read of the loop after ESC that returns a byte
ReadKeySequence ==
    /\ pc = "readKeySequence"
    /\ i < SEQUENCE_SIZE
    /\ stdin # <<>>
    /\ sequence' = [sequence EXCEPT ![i + 1] = Head(stdin)]
    /\ i' = i + 1
    /\ stdin' = Tail(stdin)
    /\ consumed' = Append(consumed, Head(stdin))
    /\ UNCHANGED <<env, keyboard, clock, out, tty, pc, exitStatus, atexitHooks,
                   originalTerminalMode, backBuffer, heap, state, key, appended, outOfBounds,
                   overflow, keysSinceRender, rendersSinceKey>>

\* the loop after ESC ends, full or on a read that timed out, and the
\* sequence is decoded
ReadKeyDecode ==
    /\ pc = "readKeySequence"
    /\ i = SEQUENCE_SIZE \/ stdin = <<>>
    /\ \E b1 \in Shows(sequence[1]), b2 \in Shows(sequence[2]) :
            key' = DecodeSequence(<<b1, b2>>)
    /\ sequence' = [k \in 1..SEQUENCE_SIZE |-> UNINIT]
    /\ i' = 0
    /\ keysSinceRender' = keysSinceRender + 1
    /\ rendersSinceKey' = 0
    /\ pc' = "handleKeyPress"
    /\ UNCHANGED <<env, keyboard, clock, stdin, out, tty, exitStatus, atexitHooks,
                   originalTerminalMode, backBuffer, heap, state, consumed, appended,
                   outOfBounds, overflow>>

ArrowLeft(st) == [st EXCEPT !.cx = max(0, st.cx - 1)]

ArrowRight(st) == [st EXCEPT !.cx = min(st.columns - 1, st.cx + 1)]

\* ArrowUp that scrolls only when the caret was on the top row already
ArrowUpMutant(st) ==
    [st EXCEPT !.cy = max(0, st.cy - 1),
               !.lineOffset = IF st.cy = 0 THEN max(st.lineOffset - 1, 0) ELSE st.lineOffset]

ArrowUp(st) ==
    LET y == max(0, st.cy - 1)
    IN  [st EXCEPT !.cy = y,
                   !.lineOffset = IF y = 0 THEN max(st.lineOffset - 1, 0) ELSE st.lineOffset]

\* ArrowDown that lets the caret step onto the status row
ArrowDownMutant(st) ==
    LET y == min(st.rows, st.cy + 1)
    IN  [st EXCEPT !.cy = y,
                   !.lineOffset = IF y = st.rows - 1
                                  THEN min(st.lineOffset + 1, st.lineCount)
                                  ELSE st.lineOffset]

ArrowDown(st) ==
    LET y == min(st.rows - 1, st.cy + 1)
    IN  [st EXCEPT !.cy = y,
                   !.lineOffset = IF y = st.rows - 1
                                  THEN min(st.lineOffset + 1, st.lineCount)
                                  ELSE st.lineOffset]

PageUp(st) == [st EXCEPT !.lineOffset = max(st.lineOffset - st.rows, 0)]

\* PageDown that does not stop at the end of the document
PageDownMutant(st) == [st EXCEPT !.lineOffset = st.lineOffset + st.rows]

PageDown(st) == [st EXCEPT !.lineOffset = min(st.lineOffset + st.rows, st.lineCount)]

Home(st) == [st EXCEPT !.cx = 0]

\* End that puts the caret one column past the last
EndMutant(st) == [st EXCEPT !.cx = st.columns]

End(st) == [st EXCEPT !.cx = st.columns - 1]

\* the viewport handleKeyPress leaves for a token that does not quit
Moved(st, c) ==
    CASE c = ARROW_LEFT -> ArrowLeft(st)
      [] c = ARROW_RIGHT -> ArrowRight(st)
      [] c = ARROW_UP -> ArrowUp(st)
      [] c = ARROW_DOWN -> ArrowDown(st)
      [] c = PAGE_UP -> PageUp(st)
      [] c = PAGE_DOWN -> PageDown(st)
      [] c = HOME -> Home(st)
      [] c = END -> End(st)
      [] OTHER -> st

\* handleKeyPress that quits on Escape alone
QuitsMutant(c) == c = ESCAPE

\* the tokens on which handleKeyPress leaves the program
Quits(c) == c \in {ESCAPE, CTRL_Q}

\* the switch of handleKeyPress on the token readKey returned
HandleKeyPress ==
    /\ pc = "handleKeyPress"
    /\ consumed' = <<>>
    /\ IF Quits(key)
       THEN /\ out' = Append(out, SeqClearScreen)
            /\ Exit(0, backBuffer)
            /\ UNCHANGED state
       ELSE /\ state' = Moved(state, key)
            /\ pc' = After("readKey")
            /\ UNCHANGED <<stdin, out, tty, exitStatus, backBuffer, heap>>
    /\ key' = 0
    /\ UNCHANGED <<env, keyboard, clock, atexitHooks, originalTerminalMode, sequence, i,
                   appended, outOfBounds, overflow, keysSinceRender, rendersSinceKey>>

(***************************************************************************)
(* The user: a key pressed puts its bytes into the input queue at once.    *)
(* The program sees the queue only when it reads it, so a key pressed      *)
(* while it does something else is a key pressed just before its next read.*)
(***************************************************************************)
\* the statements that read standard input: terminalGetSize's probe, readKey
ReadPoints == {"editorInit", "readKey", "readKeySequence"}

KeyPress(k) ==
    /\ pc \in ReadPoints
    /\ Len(stdin) < MaxQueue
    /\ stdin' = stdin \o k
    /\ UNCHANGED <<env, keyboard, clock, out, tty, pc, exitStatus, atexitHooks,
                   originalTerminalMode, backBuffer, heap, state, sequence, i, consumed, key,
                   appended, outOfBounds, overflow, keysSinceRender, rendersSinceKey>>

\* the keyboards of the runs: the keys that scroll, the keys that move the
\* caret sideways, keys without a move (Delete, x, Ctrl-Q, F1), and Escape
VerticalKeys == {<<27, 91, 65>>, <<27, 91, 66>>, <<27, 91, 53, 126>>, <<27, 91, 54, 126>>}

HorizontalKeys == {<<27, 91, 67>>, <<27, 91, 68>>, <<27, 91, 72>>, <<27, 91, 70>>}

ControlKeys == {<<27, 91, 51, 126>>, <<120>>, <<17>>, <<27, 79, 80>>}

EscapeKeys == {<<27>>, <<17>>}

Keyboards == {VerticalKeys, HorizontalKeys, ControlKeys}

\* a line that delivers one escape sequence whole or in pieces
PieceKeys(b1, b2) == {<<27, b1, b2>>, <<27, b1>>, <<27>>, <<b1>>, <<b2>>, <<126>>}

Sizes == (2..MaxRows) \X (1..MaxCols)

NoFile == [argc |-> 1, filename |-> NULL, fileExists |-> FALSE, file |-> <<>>]

MissingFile == [argc |-> 2, filename |-> FileName, fileExists |-> FALSE, file |-> <<>>]

Files ==
    {[argc |-> 2, filename |-> FileName, fileExists |-> TRUE, file |-> FileOf(d)] :
        d \in Documents}

\* an environment where tcgetattr, tcsetattr and malloc succeed
Environment(size, mode, ioctlOk, probeReply, arg) ==
    [winsize |-> size, startMode |-> mode, ioctlOk |-> ioctlOk, probeReply |-> probeReply,
     termiosOk |-> TRUE, mallocOk |-> TRUE,
     argc |-> arg.argc, filename |-> arg.filename, fileExists |-> arg.fileExists,
     file |-> arg.file]

\* every size with every command line, the ioctl working
Environments ==
    {Environment(s, CookedMode, TRUE, TRUE, a) :
        s \in Sizes, a \in {NoFile, MissingFile} \cup Files}

\* one size with every startup mode, the ioctl working or not, the probe
\* answered or not
ProbeEnvironments ==
    {Environment(<<3, 2>>, m, ok, reply, NoFile) :
        m \in StartupModes, ok \in BOOLEAN, reply \in BOOLEAN}

\* the process before main() runs: every global is zero
Start(e, kb, t) ==
    /\ env = e
    /\ keyboard = kb
    /\ clock = t
    /\ stdin = <<>>
    /\ out = <<>>
    /\ tty = e.startMode
    /\ pc = "terminalRawMode"
    /\ exitStatus = -1
    /\ atexitHooks = <<>>
    /\ originalTerminalMode = ZeroMode
    /\ backBuffer = [data |-> NULL, length |-> 0, capacity |-> 0]
    /\ heap = [live |-> FALSE, mallocs |-> 0, frees |-> 0, badFrees |-> 0]
    /\ state = [rows |-> 0, columns |-> 0, cx |-> 0, cy |-> 0, lines |-> <<>>,
                lineCount |-> 0, lineOffset |-> 0, filename |-> NULL, message |-> NULL,
                messageTime |-> 0]
    /\ sequence = [k \in 1..SEQUENCE_SIZE |-> UNINIT]
    /\ i = 0
    /\ consumed = <<>>
    /\ key = 0
    /\ appended = <<>>
    /\ outOfBounds = FALSE
    /\ overflow = <<>>
    /\ keysSinceRender = 0
    /\ rendersSinceKey = 0

Init ==
    \/ \E e \in Environments, kb \in Keyboards : Start(e, kb, 0)
    \/ \E e \in ProbeEnvironments : Start(e, EscapeKeys, 0)

Next ==
    \/ TerminalRawMode
    \/ EditorInit
    \/ EditorOpenFile
    \/ BackBufferInit
    \/ TerminalClearScreen
    \/ EditorSetStatusMessage
    \/ TerminalCursorHide
    \/ TerminalCursorHome
    \/ BackBufferClear
    \/ EditorDrawLines
    \/ BackBufferRender
    \/ TerminalSetCursorPosition
    \/ TerminalCursorShow
    \/ ReadKeyFirst
    \/ ReadKeySequence
    \/ ReadKeyDecode
    \/ HandleKeyPress
    \/ \E k \in keyboard : KeyPress(k)

Spec == Init /\ [][Next]_vars

(***************************************************************************)
(* The decoder's runs: a small terminal whose line delivers the pieces of  *)
(* one escape sequence ESC b1 b2 at any pace, for b1 '[', 'O' or a byte the *)
(* decoder does not name, and every b2.                                    *)
(***************************************************************************)
InitDecoder ==
    \E b1 \in {91, 79} \cup OtherBytes, b2 \in SequenceBytes \cup OtherBytes :
        Start(Environment(<<2, 2>>, CookedMode, TRUE, TRUE,
                          [argc |-> 2, filename |-> FileName, fileExists |-> TRUE,
                           file |-> FileOf(Document(1, 1))]),
              PieceKeys(b1, b2), MaxClock)

SpecDecoder == InitDecoder /\ [][Next]_vars

(***************************************************************************)
(* The runs on a full-size screen: a terminal of 10 rows and 20 columns,   *)
(* started without a file, with a file of the three lines alpha, beta and  *)
(* gamma, or with a file whose first line is wider than the screen.        *)
(***************************************************************************)
ScreenSize == <<10, 20>>

Alpha == <<97, 108, 112, 104, 97>>

Beta == <<98, 101, 116, 97>>

Gamma == <<103, 97, 109, 109, 97>>

ThreeLines == <<Alpha, Beta, Gamma>>

\* the letters A .. X: four bytes more than the screen has columns
WideLine == [j \in 1..(ScreenSize[2] + 4) |-> 64 + j]

WideLines == <<WideLine, <<>>>>

FileArgument(doc) ==
    [argc |-> 2, filename |-> FileName, fileExists |-> TRUE, file |-> FileOf(doc)]

ScreenEnvironments ==
    {Environment(ScreenSize, CookedMode, TRUE, TRUE, a) :
        a \in {NoFile, FileArgument(ThreeLines), FileArgument(WideLines)}}

InitScreen == \E e \in ScreenEnvironments, kb \in Keyboards : Start(e, kb, 0)

SpecScreen == InitScreen /\ [][Next]_vars

(***************************************************************************)
(* The runs with a failing setup: tcgetattr and tcsetattr fail (standard   *)
(* input is not a terminal), malloc has no memory for the frame buffer,    *)
(* the window-size ioctl fails and the cursor-position probe gets no       *)
(* answer, in every combination.                                           *)
(***************************************************************************)
SetupEnvironments ==
    {[Environment(<<3, 2>>, CookedMode, ok, reply, a)
            EXCEPT !.termiosOk = t, !.mallocOk = m] :
        ok \in BOOLEAN, reply \in BOOLEAN, t \in BOOLEAN, m \in BOOLEAN,
        a \in {NoFile, MissingFile, FileArgument(Document(1, 1))}}

InitSetup == \E e \in SetupEnvironments : Start(e, ControlKeys, 0)

SpecSetup == InitSetup /\ [][Next]_vars


(***************************************************************************)
(*                              PROPERTIES                                 *)
(***************************************************************************)

\* C1 (viewport invariant): in every reachable state the caret is inside the
\* text area of the terminal, 0 <= cx < columns and 0 <= cy < rows - 1 for the
\* terminal's rows and columns, and 0 <= lineOffset <= lineCount.
C1_ViewportInvariant ==
    /\ 0 <= state.cx /\ state.cx < env.winsize[2]
    /\ 0 <= state.cy /\ state.cy < env.winsize[1] - 1
    /\ 0 <= state.lineOffset /\ state.lineOffset <= state.lineCount

\* keys were handled until the caret is parked on the last text row, below
\* the first, and the viewport is scrolled to the end of a document
C1_Witness ==
    /\ pc = "terminalCursorHide"
    /\ state.cy = env.winsize[1] - 2
    /\ state.cy > 0
    /\ state.lineCount > 0
    /\ state.lineOffset = state.lineCount

\* C2 (terminal restoration): once the process has terminated, by whichever
\* exit, the terminal's attributes are the ones it had when the process started.
C2_TerminalRestored == pc = "exited" => tty = env.startMode

\* the process died of a frame-buffer overflow, in raw mode until then, and
\* the terminal has its startup attributes back
C2_Witness ==
    /\ pc = "exited"
    /\ exitStatus = 1
    /\ overflow # <<>>
    /\ originalTerminalMode = env.startMode
    /\ RawMode(env.startMode) # env.startMode
    /\ tty = env.startMode

\* the decoding table of the key decoder: the token for the two bytes after ESC
TableToken(b1, b2) ==
    CASE <<b1, b2>> = <<91, 65>> -> ARROW_UP
      [] <<b1, b2>> = <<91, 66>> -> ARROW_DOWN
      [] <<b1, b2>> = <<91, 67>> -> ARROW_RIGHT
      [] <<b1, b2>> = <<91, 68>> -> ARROW_LEFT
      [] <<b1, b2>> \in {<<91, 70>>, <<91, 52>>, <<91, 56>>, <<79, 70>>} -> END
      [] <<b1, b2>> \in {<<91, 72>>, <<91, 49>>, <<91, 55>>, <<79, 72>>} -> HOME
      [] <<b1, b2>> = <<91, 51>> -> DELETE
      [] <<b1, b2>> = <<91, 53>> -> PAGE_UP
      [] <<b1, b2>> = <<91, 54>> -> PAGE_DOWN
      [] OTHER -> ESCAPE

\* C3 (key decoder result): when readKey has read ESC and at least two more
\* bytes b1 b2, its token is the decoding table's token for (b1, b2), whatever
\* the third byte is; when the first byte is not ESC, the token is that byte.
C3_DecoderTable ==
    pc = "handleKeyPress" =>
        IF consumed[1] = 27
        THEN Len(consumed) >= 3 => key = TableToken(consumed[2], consumed[3])
        ELSE key = consumed[1]

\* ESC O H followed by a third byte has been decoded to Home
C3_Witness ==
    /\ pc = "handleKeyPress"
    /\ consumed = <<27, 79, 72, 126>>
    /\ key = HOME

\* the bytes of a key of the decoding table at the head of bs: ESC and two
\* bytes, and the ~ that ends a sequence with a digit
KeyLength(bs) ==
    IF bs[3] \in 49..56 /\ Len(bs) >= 4 /\ bs[4] = 126 THEN 4 ELSE 3

\* C4 (the decoder consumes exactly the key's bytes): a readKey call that
\* found a key of the decoding table at the head of the input queue has taken
\* that key's bytes from the queue and no byte queued behind them.
C4_ConsumesExactly ==
    (/\ pc = "handleKeyPress"
     /\ Len(consumed) >= 3
     /\ consumed[1] = 27
     /\ TableToken(consumed[2], consumed[3]) # ESCAPE)
        => Len(consumed) = KeyLength(consumed)

\* C5 (incomplete escape sequence): when readKey has read ESC and fewer than
\* two more bytes before a read timed out, its token is Escape.
C5_IncompleteIsEscape ==
    (pc = "handleKeyPress" /\ consumed[1] = 27 /\ Len(consumed) < 3) => key = ESCAPE

\* a step of handleKeyPress's switch: on Escape and on Ctrl-Q it writes the
\* clear-screen sequence and ends the process with status 0, the viewport
\* untouched; on any other token the process goes on; and a process that has
\* ended takes no step
C6_Step ==
    /\ pc # "exited"
    /\ (pc = "handleKeyPress" /\ pc' # pc) =>
            IF key \in {27, 17}
            THEN /\ pc' = "exited"
                 /\ exitStatus' = 0
                 /\ out' = Append(out, SeqClearScreen)
                 /\ state'.cx = state.cx
                 /\ state'.cy = state.cy
                 /\ state'.lineOffset = state.lineOffset
            ELSE /\ pc' # "exited"
                 /\ exitStatus' = -1

\* C6 (quit): Escape and Ctrl-Q, and no other token, make handleKeyPress clear
\* the screen and exit with status 0, with no further frame and no change of
\* cx, cy or lineOffset.
C6_Quit == [][C6_Step]_vars

\* the process has quit with status 0 after one frame, the clear-screen
\* sequence being the last thing it wrote
C6_Witness ==
    /\ pc = "exited"
    /\ exitStatus = 0
    /\ Len(out) = 6
    /\ out[6] = SeqClearScreen
    /\ overflow = <<>>

\* C7 (frame buffer bound): the buffer's length stays within 0 .. capacity, no
\* append writes past the capacity, and the bytes a flush writes are exactly
\* the bytes appended since the frame's backBufferClear.
C7_FrameBufferBound ==
    /\ 0 <= backBuffer.length
    /\ backBuffer.length <= backBuffer.capacity
    /\ ~outOfBounds
    /\ pc = "backBufferRender" => Rendered(backBuffer) = appended
    /\ pc = "terminalSetCursorPosition" => out[Len(out)] = appended

\* a frame after the first one (the viewport has been scrolled) was flushed
C7_Witness ==
    /\ pc = "terminalSetCursorPosition"
    /\ state.lineOffset > 0
    /\ Len(appended) > 0
    /\ out[Len(out)] = appended

\* C8 (append boundary): backBufferAppend dies exactly when length + n exceeds
\* the capacity; an append that fills the buffer to its capacity succeeds.
C8_AppendBoundary == overflow # <<>> => overflow[1] + overflow[2] > overflow[3]

\* C9 (capacity is sufficient): on a terminal of at least 2 rows and 1 column
\* whose size the program has determined, no frame's composition reaches the
\* fatal path of backBufferAppend.
C9_CapacitySufficient ==
    (/\ state.rows = env.winsize[1] - 1
     /\ state.columns = env.winsize[2]
     /\ pc \notin {"terminalRawMode", "editorInit"})
        => overflow = <<>>

\* C10 (frame/input ordering): when the controller reads a key, the writes of
\* the iteration are hide cursor, home cursor, the frame in one flush, the
\* cursor position (cx, cy) and show cursor, in this order; one flush precedes
\* every key token read and one key token is read between two flushes.
C10_FrameOrder ==
    /\ pc \in {"readKey", "readKeySequence", "handleKeyPress"} =>
            out = <<SeqCursorHide, SeqCursorHome, appended,
                    SeqCursorPosition(state.cx, state.cy), SeqCursorShow>>
    /\ pc \in {"terminalSetCursorPosition", "terminalCursorShow", "readKey",
               "readKeySequence"} =>
            rendersSinceKey = 1 /\ keysSinceRender = 0
    /\ pc = "handleKeyPress" => rendersSinceKey = 0 /\ keysSinceRender = 1
    /\ pc \in {"terminalCursorHide", "terminalCursorHome", "backBufferClear",
               "editorDrawLines", "backBufferRender"} =>
            rendersSinceKey = 0 /\ keysSinceRender <= 1

\* the controller waits for a key after the frame that follows a move of the caret
C10_Witness ==
    /\ pc = "readKey"
    /\ state.cy > 0
    /\ Len(out) = 5
    /\ out[3] = appended
    /\ rendersSinceKey = 1

\* the height of the text area and the width of the terminal
TextRows == env.winsize[1] - 1

Columns == env.winsize[2]

\* text row y of the frame of the current viewport: ESC[K, the document line
\* lineOffset + y cut to columns - 1 bytes or a tilde, CR LF
FrameTextRow(y) ==
    LET n == state.lineOffset + y
    IN  <<27, 91, 75>>
            \o (IF n < state.lineCount
                THEN SubSeq(state.lines[n + 1].chars, 1,
                            min(state.lines[n + 1].length, Columns - 1))
                ELSE <<126>>)
            \o <<13, 10>>

FrameTextRows == Flatten([y \in 1..TextRows |-> FrameTextRow(y - 1)])

\* the content of the status row of a frame: the columns bytes before the
\* closing ESC[m
StatusContent(frame) == SubSeq(frame, Len(frame) - 2 - Columns, Len(frame) - 3)

\* C11 (frame structure): a frame editorDrawLines has composed is rows - 1 text
\* rows (ESC[K, the line's first min(length, columns - 1) bytes or '~', CR LF)
\* followed by the status row: ESC[7m, exactly columns bytes of content, ESC[m,
\* and nothing after it.
C11_FrameStructure ==
    pc = "backBufferRender" =>
        /\ Len(appended) = Len(FrameTextRows) + 4 + Columns + 3
        /\ SubSeq(appended, 1, Len(FrameTextRows) + 4) = FrameTextRows \o <<27, 91, 55, 109>>
        /\ SubSeq(appended, Len(appended) - 2, Len(appended)) = <<27, 91, 109>>

\* a frame of the 10 x 20 screen whose first row is the wide line cut to 19
\* bytes, whose second row is an empty line and whose other rows are tildes
C11_Witness ==
    /\ pc = "backBufferRender"
    /\ env.winsize = ScreenSize
    /\ state.lineOffset = 0
    /\ state.lineCount = 2
    /\ SubSeq(appended, 1, 24) = <<27, 91, 75>> \o SubSeq(WideLine, 1, 19) \o <<13, 10>>
    /\ SubSeq(appended, 25, 29) = <<27, 91, 75, 13, 10>>
    /\ SubSeq(appended, 30, 35) = <<27, 91, 75, 126, 13, 10>>

\* an ArrowDown on the 10 x 20 screen with the three-line document, the
\* viewport not scrolled yet: one of the first eight moves the caret one row
\* down and does not scroll; the ninth, with the caret on row 8, scrolls by
\* one line
C12_Step ==
    (/\ pc = "handleKeyPress"
     /\ key = ARROW_DOWN
     /\ env.winsize = ScreenSize
     /\ state.lineCount = 3
     /\ state.lineOffset = 0)
        => IF state.cy < 8
           THEN state'.cy = state.cy + 1 /\ state'.lineOffset = 0
           ELSE state'.cy = 8 /\ state'.lineOffset = 1

\* C12 (ArrowDown nine times): from cx = 0, cy = 0, lineOffset = 0 on a 10-row,
\* 20-column terminal with a three-line document, the first eight ArrowDown
\* tokens take cy from 0 to 8 with lineOffset still 0, and the ninth keeps
\* cy = 8 and takes lineOffset from 0 to 1.
C12_ArrowDownNine == [][C12_Step]_vars

\* a status text as the status row shows it: cut to the width of the terminal,
\* or followed by spaces up to it
Padded(text) == SubSeq(text \o [k \in 1..Columns |-> 32], 1, Columns)

\* the default status line of the current viewport:
\* "<filename, 20 bytes of it at most, or [no file]> - <lineCount> lines    line: <lineOffset + cy>  column: <cx>"
DefaultStatusLine ==
    (IF state.filename = NULL THEN NoFileName
     ELSE SubSeq(state.filename, 1, min(Len(state.filename), 20)))
        \o StatusDash \o Decimal(state.lineCount)
        \o StatusLines \o Decimal(state.lineOffset + state.cy)
        \o StatusColumn \o Decimal(state.cx)

\* a frame is composed while a status message is set: if at that time the
\* message is more than 5 seconds old the frame's status row shows the default
\* status line and not the message, else it shows the message
C13_Step ==
    (/\ pc = "editorDrawLines"
     /\ pc' = "backBufferRender"
     /\ state.message # NULL)
        => IF clock' - state.messageTime > 5
           THEN /\ StatusContent(appended') # Padded(state.message)
                /\ StatusContent(appended') = Padded(DefaultStatusLine)
           ELSE StatusContent(appended') = Padded(state.message)

\* C13 (status message expiry): once the status message is more than 5 seconds
\* old, the next frame rendered shows the default status line and not the
\* message text; a frame rendered while the message is at most 5 seconds old
\* shows the message.
C13_MessageExpiry == [][C13_Step]_vars

\* a call of the setup has failed: tcgetattr and tcsetattr in terminalRawMode,
\* malloc in backBufferInit, or terminalGetSize has not found the window size
SetupFailed ==
    \/ ~env.termiosOk /\ pc # "terminalRawMode"
    \/ ~env.mallocOk /\ heap.mallocs > 0
    \/ /\ pc \notin {"terminalRawMode", "editorInit"}
       /\ (state.rows # TextRows \/ state.columns # Columns)

\* the statements of the frame loop, handleKeyPress with its reads included
FrameLoop ==
    {"terminalCursorHide", "terminalCursorHome", "backBufferClear", "editorDrawLines",
     "backBufferRender", "terminalSetCursorPosition", "terminalCursorShow", "readKey",
     "readKeySequence", "handleKeyPress"}

\* C14 (setup failures are fatal): once reading or setting the terminal
\* attributes, the allocation of the frame buffer or the determination of the
\* window size has failed, the process does not enter the frame loop, and it
\* ends by exit with a non-zero status after writing clear-screen + home.
C14_SetupFailuresFatal ==
    SetupFailed =>
        /\ pc \notin FrameLoop
        /\ pc # "killed"
        /\ pc = "exited" =>
                /\ exitStatus > 0
                /\ out # <<>>
                /\ out[Len(out)] = SeqClearScreen

\* the command line names a file that cannot be opened
FileOpenFails == env.argc > 1 /\ ~env.fileExists

\* C15 (file-open failure): when the file named on the command line cannot be
\* opened, the process writes clear-screen + home and exits with status 1
\* before the frame buffer is allocated and before any frame is rendered, and
\* the at-exit hook puts back the terminal attributes captured at startup.
C15_FileOpenFailure ==
    FileOpenFails =>
        /\ pc \in {"terminalRawMode", "editorInit", "editorOpenFile", "exited"}
        /\ heap.mallocs = 0
        /\ backBuffer.data = NULL
        /\ appended = <<>>
        /\ rendersSinceKey = 0
        /\ pc = "exited" =>
                /\ exitStatus = 1
                /\ out = <<SeqClearScreen>>
                /\ atexitHooks = <<"terminalReset">>
                /\ originalTerminalMode = env.startMode
                /\ tty = env.startMode

\* the process has ended on the failure to open its file, the terminal out of
\* raw mode again
C15_Witness ==
    /\ FileOpenFails
    /\ pc = "exited"
    /\ exitStatus = 1
    /\ state.filename = FileName
    /\ out = <<SeqClearScreen>>
    /\ tty = env.startMode
    /\ tty # RawMode(env.startMode)

\* handleKeyPress on ArrowUp and on ArrowDown, H being the height of the text
\* area: the caret moves one row and stays within 0 .. H - 1; the viewport
\* scrolls by one line, within 0 .. lineCount, exactly when the caret is then
\* on row 0 (ArrowUp) or on row H - 1 (ArrowDown); cx is unchanged
C16_Step ==
    (pc = "handleKeyPress" /\ key \in {ARROW_UP, ARROW_DOWN}) =>
        /\ state'.cx = state.cx
        /\ key = ARROW_UP =>
                /\ state'.cy = max(0, state.cy - 1)
                /\ state'.lineOffset =
                        IF state'.cy = 0 THEN max(0, state.lineOffset - 1)
                        ELSE state.lineOffset
        /\ key = ARROW_DOWN =>
                /\ state'.cy = min(TextRows - 1, state.cy + 1)
                /\ state'.lineOffset =
                        IF state'.cy = TextRows - 1
                        THEN min(state.lineCount, state.lineOffset + 1)
                        ELSE state.lineOffset

\* C16 (vertical arrows): ArrowUp sets cy' = max(0, cy - 1) and, exactly when
\* cy' = 0, lineOffset' = max(0, lineOffset - 1); ArrowDown sets
\* cy' = min(H - 1, cy + 1) and, exactly when cy' = H - 1,
\* lineOffset' = min(lineCount, lineOffset + 1); both leave cx unchanged.
C16_VerticalArrows == [][C16_Step]_vars

\* ArrowDown has taken the caret to the last text row and the viewport to the
\* end of the three-line document, and handleKeyPress now handles an ArrowUp
\* that moves the caret without scrolling
C16_Witness ==
    /\ pc = "handleKeyPress"
    /\ key = ARROW_UP
    /\ env.winsize = ScreenSize
    /\ state.cy = TextRows - 1
    /\ state.lineCount = 3
    /\ state.lineOffset = state.lineCount

\* a text row that shows a tilde
TildeRow == <<27, 91, 75, 126, 13, 10>>

\* handleKeyPress on PageDown and on PageUp, H being the height of the text
\* area: lineOffset moves by H within 0 .. lineCount, cx and cy are unchanged;
\* and a frame composed with lineOffset = lineCount has a tilde on every text row
C17_Step ==
    /\ (pc = "handleKeyPress" /\ key \in {PAGE_UP, PAGE_DOWN}) =>
            /\ state'.cx = state.cx
            /\ state'.cy = state.cy
            /\ key = PAGE_DOWN =>
                    state'.lineOffset = min(state.lineCount, state.lineOffset + TextRows)
            /\ key = PAGE_UP =>
                    state'.lineOffset = max(0, state.lineOffset - TextRows)
    /\ (pc = "editorDrawLines" /\ pc' = "backBufferRender"
            /\ state.lineOffset = state.lineCount) =>
            SubSeq(appended', 1, Len(TildeRow) * TextRows)
                = Flatten([y \in 1..TextRows |-> TildeRow])

\* a PageDown is handled, from lineOffset to lineOffset'; a PageUp after it
\* would lead to max(0, lineOffset' - H)
PageDownHandled == pc = "handleKeyPress" /\ key = PAGE_DOWN

PageUpAfter == max(0, state'.lineOffset - TextRows)

NeitherClamped ==
    /\ state.lineOffset + TextRows <= state.lineCount
    /\ state'.lineOffset - TextRows >= 0

\* C17 as stated (paging): PageDown sets lineOffset' = min(lineCount,
\* lineOffset + H), PageUp sets lineOffset' = max(0, lineOffset - H), both leave
\* cx and cy unchanged; after a PageDown that reaches lineCount every text row
\* of the next frame shows '~'; and PageUp after PageDown returns to the
\* original lineOffset only when neither step was clamped.
C17_PagingAsStated ==
    [][/\ C17_Step
       /\ (PageDownHandled /\ PageUpAfter = state.lineOffset) => NeitherClamped]_vars

\* C17 (paging), amended: as stated, but PageUp after PageDown returns to the
\* original lineOffset only when neither step was clamped or the original
\* lineOffset is 0.
C17_Paging ==
    [][/\ C17_Step
       /\ (PageDownHandled /\ PageUpAfter = state.lineOffset) =>
                (NeitherClamped \/ state.lineOffset = 0)]_vars

\* a frame after a PageDown from the top of a two-line document on a text
\* area of two rows: the viewport is at the end and both rows show a tilde
C17_Witness ==
    /\ pc = "backBufferRender"
    /\ TextRows = 2
    /\ state.lineCount = 2
    /\ state.cy = 0
    /\ state.lineOffset = 2
    /\ SubSeq(appended, 1, 12) = TildeRow \o TildeRow

\* the tokens with a case in handleKeyPress's switch
MovingKeys ==
    {ARROW_LEFT, ARROW_RIGHT, ARROW_UP, ARROW_DOWN, PAGE_UP, PAGE_DOWN, HOME, END}

\* handleKeyPress on the keys that are not vertical: ArrowLeft, ArrowRight,
\* Home and End set cx and nothing else; Delete and every token without a
\* case leave the viewport alone; and no token changes rows, columns,
\* lineCount or a line
C18_Step ==
    pc = "handleKeyPress" =>
        /\ key = ARROW_LEFT => state'.cx = max(0, state.cx - 1)
        /\ key = ARROW_RIGHT => state'.cx = min(Columns - 1, state.cx + 1)
        /\ key = HOME => state'.cx = 0
        /\ key = END => state'.cx = Columns - 1
        /\ key \in {ARROW_LEFT, ARROW_RIGHT, HOME, END} =>
                /\ state'.cy = state.cy
                /\ state'.lineOffset = state.lineOffset
        /\ key \notin MovingKeys \cup {27, 17} =>
                /\ state'.cx = state.cx
                /\ state'.cy = state.cy
                /\ state'.lineOffset = state.lineOffset
        /\ state'.rows = state.rows
        /\ state'.columns = state.columns
        /\ state'.lineCount = state.lineCount
        /\ state'.lines = state.lines

\* C18 (frame conditions of the remaining keys): ArrowLeft
\* (cx' = max(0, cx - 1)), ArrowRight (cx' = min(columns - 1, cx + 1)), Home
\* (cx' = 0) and End (cx' = columns - 1) change only cx; Delete and every
\* other token leave cx, cy and lineOffset unchanged; no token changes rows,
\* columns, lineCount or the content of a line.
C18_OtherKeys == [][C18_Step]_vars

\* the caret has been moved to the last column of the 10 x 20 screen, and
\* handleKeyPress now handles Home
C18_Witness ==
    /\ pc = "handleKeyPress"
    /\ key = HOME
    /\ env.winsize = ScreenSize
    /\ state.cx = Columns - 1
    /\ state.lineCount = 3

\* a frame is composed while no status message is set: the content of its
\* status row is the default status line, cut to columns bytes or followed by
\* spaces up to columns bytes
C19_Step ==
    (/\ pc = "editorDrawLines"
     /\ pc' = "backBufferRender"
     /\ state.message = NULL)
        => StatusContent(appended') = Padded(DefaultStatusLine)

\* C19 (default status text): with no status message active, the status row's
\* content is the string "<filename, 20 bytes at most, or [no file]> -
\* <lineCount> lines    line: <lineOffset + cy>  column: <cx>", cut to its first
\* columns bytes when it is longer than columns, and otherwise followed by
\* spaces up to columns bytes.
C19_DefaultStatus == [][C19_Step]_vars

\* the process as the atexit hooks see it
Process == [tty |-> tty, stdin |-> stdin, backBuffer |-> backBuffer, heap |-> heap]

\* C20 (frame buffer lifecycle): the frame buffer is allocated once; every
\* statement from backBufferInit's return to the exit runs on the live block;
\* an exit after backBufferInit releases the block exactly once, by the atexit
\* hook, and a further run of the hook changes nothing; nothing is freed that
\* is not allocated, and the exit on the file-open failure, before the
\* allocation, releases nothing.
C20_BufferLifecycle ==
    /\ heap.mallocs <= 1
    /\ heap.badFrees = 0
    /\ pc \in FrameLoop \cup {"terminalClearScreen", "editorSetStatusMessage"} =>
            /\ heap.mallocs = 1
            /\ heap.frees = 0
            /\ heap.live
            /\ backBuffer.data # NULL
            /\ atexitHooks = <<"terminalReset", "backBufferDestroy">>
    /\ pc = "exited" =>
            /\ heap.frees = heap.mallocs
            /\ ~heap.live
            /\ backBuffer.data = NULL
            /\ backBufferDestroy(Process) = Process
    /\ (pc = "exited" /\ FileOpenFails) =>
            /\ heap.mallocs = 0
            /\ heap.frees = 0
            /\ atexitHooks = <<"terminalReset">>

\* the process has quit on a key after a frame, and the block of the frame
\* buffer, allocated once, has been released once
C20_Witness ==
    /\ pc = "exited"
    /\ exitStatus = 0
    /\ Len(appended) > 0
    /\ heap = [live |-> FALSE, mallocs |-> 1, frees |-> 1, badFrees |-> 0]
    /\ backBuffer = [data |-> NULL, length |-> 0, capacity |-> 0]

=============================================================================
